---------------------------- MODULE Spec2Model ----------------------------
(***************************************************************************)
(* Hardware-intrinsic metadata registry of the JIT (hwintrinsic.h).        *)
(*                                                                         *)
(* The registry is a static table of HWIntrinsicInfo records indexed by    *)
(* NamedIntrinsic.  Compilation threads query it through the member        *)
(* accessors and the flag predicates of struct HWIntrinsicInfo.  The build *)
(* configuration (target architecture, checked or release build) is fixed  *)
(* before the first query and selects among the #if branches.              *)
(***************************************************************************)
EXTENDS Integers, Sequences, FiniteSets, TLC

VARIABLES
    TARGET,                 \* "XARCH" or "ARM64": which TARGET_* macro is defined
    DEBUG,                  \* TRUE in a checked build, where assert() is live
    hwIntrinsicInfoArray,   \* the registry: index -> HWIntrinsicInfo record
    pc,                     \* per compilation thread: "idle", "ret" or "fatal"
    req,                    \* per thread: the call it made last [op, id, arg]
    ret,                    \* per thread: the value the call returned
    comparison,             \* comparison predicate handed to the swap function
    swapped,                \* its current image under repeated swapping
    nswaps                  \* how many times the swap function was applied

vars == <<TARGET, DEBUG, hwIntrinsicInfoArray, pc, req, ret,
          comparison, swapped, nswaps>>

-----------------------------------------------------------------------------
(* Bounds of the model *)

NumIntrinsics == 2      \* rows of the registry
NumThreads    == 2      \* concurrent compilation threads
TypeSlack     == 1      \* element types tried below TYP_BYTE and above TYP_DOUBLE
MaxFlagBits   == 2      \* flag bits set over the whole table in SpecFlags
MaxSwaps      == 3      \* applications of the swap function in SpecCmp

-----------------------------------------------------------------------------
(* enum HWIntrinsicCategory *)

HW_Category_SimpleSIMD  == 0
HW_Category_IMM         == 1
HW_Category_Scalar      == 2
HW_Category_SIMDScalar  == 3
HW_Category_MemoryLoad  == 4
HW_Category_MemoryStore == 5
HW_Category_Helper      == 6
HW_Category_Special     == 7

HWIntrinsicCategory ==
    { HW_Category_SimpleSIMD, HW_Category_IMM, HW_Category_Scalar,
      HW_Category_SIMDScalar, HW_Category_MemoryLoad, HW_Category_MemoryStore,
      HW_Category_Helper, HW_Category_Special }

-----------------------------------------------------------------------------
(* enum HWIntrinsicFlag : unsigned int *)

HW_Flag_NoFlag                == 0
HW_Flag_Commutative           == 1          \* 0x1
HW_Flag_FullRangeIMM          == 2          \* 0x2
HW_Flag_NoCodeGen             == 8          \* 0x8
HW_Flag_UnfixedSIMDSize       == 16         \* 0x10
HW_Flag_MultiIns              == 32         \* 0x20
HW_Flag_NoContainment         == 64         \* 0x40
HW_Flag_CopyUpperBits         == 128        \* 0x80
HW_Flag_BaseTypeFromFirstArg  == 256        \* 0x100
HW_Flag_NoFloatingPointUsed   == 512        \* 0x200
HW_Flag_MaybeIMM              == 1024       \* 0x400
HW_Flag_NoJmpTableIMM         == 2048       \* 0x800
HW_Flag_BaseTypeFromSecondArg == 4096       \* 0x1000
HW_Flag_SpecialCodeGen        == 8192       \* 0x2000
HW_Flag_NoRMWSemantics        == 16384      \* 0x4000, defined(TARGET_XARCH)
HW_Flag_HasRMWSemantics       == 16384      \* 0x4000, defined(TARGET_ARM64)
HW_Flag_SpecialImport         == 32768      \* 0x8000
HW_Flag_MaybeMemoryLoad       == 65536      \* 0x10000
HW_Flag_MaybeMemoryStore      == 131072     \* 0x20000

\* The enumerators the build defines: the RMW one depends on the target.
HW_Flag_RMW(tgt) ==
    IF tgt = "XARCH" THEN HW_Flag_NoRMWSemantics ELSE HW_Flag_HasRMWSemantics

HWIntrinsicFlag(tgt) ==
    << HW_Flag_Commutative, HW_Flag_FullRangeIMM, HW_Flag_NoCodeGen,
       HW_Flag_UnfixedSIMDSize, HW_Flag_MultiIns, HW_Flag_NoContainment,
       HW_Flag_CopyUpperBits, HW_Flag_BaseTypeFromFirstArg,
       HW_Flag_NoFloatingPointUsed, HW_Flag_MaybeIMM, HW_Flag_NoJmpTableIMM,
       HW_Flag_BaseTypeFromSecondArg, HW_Flag_SpecialCodeGen, HW_Flag_RMW(tgt),
       HW_Flag_SpecialImport, HW_Flag_MaybeMemoryLoad, HW_Flag_MaybeMemoryStore >>

\* unsigned int is 32 bits wide
UIntWidth == 32

\* a & b on unsigned int
RECURSIVE BitAndW(_, _, _)
BitAndW(a, b, w) ==
    IF w = 0 \/ a = 0 \/ b = 0 THEN 0
    ELSE (a % 2) * (b % 2) + 2 * BitAndW(a \div 2, b \div 2, w - 1)

BitAnd(a, b) == BitAndW(a, b, UIntWidth)

\* a ^ b on unsigned int (used to edit one flag of a table row)
RECURSIVE BitXorW(_, _, _)
BitXorW(a, b, w) ==
    IF w = 0 \/ (a = 0 /\ b = 0) THEN 0
    ELSE ((a + b) % 2) + 2 * BitXorW(a \div 2, b \div 2, w - 1)

BitXor(a, b) == BitXorW(a, b, UIntWidth)

-----------------------------------------------------------------------------
(* Types the header uses and other headers define *)

NI_Illegal            == 0      \* the reserved "none" identifier
NI_HW_INTRINSIC_START == 1      \* the identifier just below the first intrinsic
NI_HW_INTRINSIC_END   == NI_HW_INTRINSIC_START + NumIntrinsics + 1

TYP_BYTE   == 3                 \* smallest signed integer element type
TYP_DOUBLE == 12                \* double precision element type
INS_invalid == 0                \* the "no instruction" opcode

NamedIntrinsic == (NI_HW_INTRINSIC_START + 1) .. (NI_HW_INTRINSIC_END - 1)
var_types      == (TYP_BYTE - TypeSlack) .. (TYP_DOUBLE + TypeSlack)

\* instruction ins[10]
InsSlots == 10

-----------------------------------------------------------------------------
(* struct HWIntrinsicInfo and the static table of its records *)

HWIntrinsicInfo(id, name, isa, ival, simdSize, numArgs, ins, category, flags) ==
    [ id |-> id, name |-> name, isa |-> isa, ival |-> ival,
      simdSize |-> simdSize, numArgs |-> numArgs, ins |-> ins,
      category |-> category, flags |-> flags ]

\* An instruction selector: opcode base + k in the supported slots, INS_invalid
\* in the others.
InsRow(base, supported) ==
    [k \in 0 .. (InsSlots - 1) |-> IF k \in supported THEN base + k ELSE INS_invalid]

\* The list of intrinsics a table is built from.  Rows with explicit memory
\* load/store semantics carry HW_Flag_NoContainment.
HardwareIntrinsicList ==
    << [ name |-> "Add", isa |-> "SSE2", ival |-> -1, simdSize |-> 16, numArgs |-> 2,
         ins |-> InsRow(100, {0, 1, 2, 3, 4, 5, 6, 7, 9}),
         category |-> HW_Category_SimpleSIMD, flags |-> HW_Flag_Commutative ],
       [ name |-> "ShiftLeftLogical", isa |-> "SSE2", ival |-> -1, simdSize |-> 16, numArgs |-> 2,
         ins |-> InsRow(200, {2, 3, 4, 5, 6, 7}),
         category |-> HW_Category_IMM,
         flags |-> HW_Flag_MaybeIMM + HW_Flag_NoJmpTableIMM + HW_Flag_FullRangeIMM ],
       [ name |-> "Compare", isa |-> "AVX", ival |-> -1, simdSize |-> 32, numArgs |-> 3,
         ins |-> InsRow(300, {8, 9}),
         category |-> HW_Category_IMM, flags |-> HW_Flag_NoFlag ],
       [ name |-> "LoadVector128", isa |-> "SSE", ival |-> -1, simdSize |-> 16, numArgs |-> 1,
         ins |-> InsRow(400, {8}),
         category |-> HW_Category_MemoryLoad, flags |-> HW_Flag_NoContainment ],
       [ name |-> "Store", isa |-> "SSE", ival |-> -1, simdSize |-> 16, numArgs |-> 2,
         ins |-> InsRow(500, {8}),
         category |-> HW_Category_MemoryStore,
         flags |-> HW_Flag_NoContainment + HW_Flag_BaseTypeFromSecondArg ] >>

\* The table built from a choice of rows: row i describes identifier
\* NI_HW_INTRINSIC_START + 1 + i, as the list both declares the enumeration
\* and fills the table.
MakeTable(rows) ==
    [i \in 0 .. (NumIntrinsics - 1) |->
        HWIntrinsicInfo(NI_HW_INTRINSIC_START + 1 + i, rows[i].name, rows[i].isa,
                        rows[i].ival, rows[i].simdSize, rows[i].numArgs,
                        rows[i].ins, rows[i].category, rows[i].flags)]

\* A build's table: NumIntrinsics rows of the list, in the order of the list.
Tables ==
    { MakeTable([i \in 0 .. (NumIntrinsics - 1) |-> HardwareIntrinsicList[f[i]]]) :
        f \in { g \in [0 .. (NumIntrinsics - 1) -> DOMAIN HardwareIntrinsicList] :
                  \A i, j \in 0 .. (NumIntrinsics - 1) : i < j => g[i] < g[j] } }

-----------------------------------------------------------------------------
(* Registry lookup and the member lookups *)

\* The identifiers lookup accepts; any other is a fatal error.
IsValidId(id) == id /= NI_Illegal /\ id > NI_HW_INTRINSIC_START /\ id < NI_HW_INTRINSIC_END

lookup(id) == hwIntrinsicInfoArray[id - NI_HW_INTRINSIC_START - 1]

\* lookupId with the field next to id projected instead
lookupIdOtherField(id) == lookup(id).ival

lookupId(id)       == lookup(id).id
lookupName(id)     == lookup(id).name
lookupIsa(id)      == lookup(id).isa
lookupIval(id)     == lookup(id).ival
lookupSimdSize(id) == lookup(id).simdSize
lookupNumArgs(id)  == lookup(id).numArgs
lookupCategory(id) == lookup(id).category
lookupFlags(id)    == lookup(id).flags

-----------------------------------------------------------------------------
(* What a call hands back.  A fatal error halts and hands back nothing. *)

RetInt(v)  == [kind |-> "int",  i |-> v, b |-> FALSE, s |-> ""]
RetBool(v) == [kind |-> "bool", i |-> 0, b |-> v,     s |-> ""]
RetStr(v)  == [kind |-> "str",  i |-> 0, b |-> FALSE, s |-> v]
Fatal      == [kind |-> "fatal", i |-> 0, b |-> FALSE, s |-> ""]
OutOfArray == [kind |-> "undefined", i |-> 0, b |-> FALSE, s |-> ""]
NoValue    == [kind |-> "none", i |-> 0, b |-> FALSE, s |-> ""]

\* arr[k] of a C array: a read past the end is undefined
ArrayRead(arr, k) == IF k \in DOMAIN arr THEN RetInt(arr[k]) ELSE OutOfArray

\* lookupIns without the rebasing of the element type to slot 0
lookupInsNotRebased(id, type) ==
    IF (type < TYP_BYTE) \/ (type > TYP_DOUBLE)
    THEN IF DEBUG THEN Fatal ELSE RetInt(INS_invalid)
    ELSE IF ~IsValidId(id) THEN Fatal
    ELSE ArrayRead(lookup(id).ins, type - TYP_BYTE + 1)

lookupIns(id, type) ==
    IF (type < TYP_BYTE) \/ (type > TYP_DOUBLE)
    THEN IF DEBUG THEN Fatal                 \* assert(!"Unexpected type")
                  ELSE RetInt(INS_invalid)   \* return INS_invalid
    ELSE IF ~IsValidId(id) THEN Fatal
    ELSE ArrayRead(lookup(id).ins, type - TYP_BYTE)

-----------------------------------------------------------------------------
(* Flags lookup *)

IsCommutative(id)         == BitAnd(lookupFlags(id), HW_Flag_Commutative) /= 0
\* HasFullRangeImm testing the mask of the line above
HasFullRangeImmWrongMask(id) == BitAnd(lookupFlags(id), HW_Flag_Commutative) /= 0

HasFullRangeImm(id)       == BitAnd(lookupFlags(id), HW_Flag_FullRangeIMM) /= 0
RequiresCodegen(id)       == BitAnd(lookupFlags(id), HW_Flag_NoCodeGen) = 0
HasFixedSimdSize(id)      == BitAnd(lookupFlags(id), HW_Flag_UnfixedSIMDSize) = 0
GeneratesMultipleIns(id)  == BitAnd(lookupFlags(id), HW_Flag_MultiIns) /= 0
\* SupportsContainment with the polarity of the positive flags
SupportsContainmentPositive(id) == BitAnd(lookupFlags(id), HW_Flag_NoContainment) /= 0

SupportsContainment(id)   == BitAnd(lookupFlags(id), HW_Flag_NoContainment) = 0
CopiesUpperBits(id)       == BitAnd(lookupFlags(id), HW_Flag_CopyUpperBits) /= 0
BaseTypeFromFirstArg(id)  == BitAnd(lookupFlags(id), HW_Flag_BaseTypeFromFirstArg) /= 0
IsFloatingPointUsed(id)   == BitAnd(lookupFlags(id), HW_Flag_NoFloatingPointUsed) = 0
MaybeImm(id)              == BitAnd(lookupFlags(id), HW_Flag_MaybeIMM) /= 0
MaybeMemoryLoad(id)       == BitAnd(lookupFlags(id), HW_Flag_MaybeMemoryLoad) /= 0
\* MaybeMemoryStore left testing the mask of MaybeMemoryLoad
MaybeMemoryStoreCopied(id) == BitAnd(lookupFlags(id), HW_Flag_MaybeMemoryLoad) /= 0

MaybeMemoryStore(id)      == BitAnd(lookupFlags(id), HW_Flag_MaybeMemoryStore) /= 0
NoJmpTableImm(id)         == BitAnd(lookupFlags(id), HW_Flag_NoJmpTableIMM) /= 0
BaseTypeFromSecondArg(id) == BitAnd(lookupFlags(id), HW_Flag_BaseTypeFromSecondArg) /= 0
HasSpecialCodegen(id)     == BitAnd(lookupFlags(id), HW_Flag_SpecialCodeGen) /= 0

\* HasRMWSemantics as one portable formula, the same on both targets
HasRMWSemanticsPortable(id) == BitAnd(lookupFlags(id), HW_Flag_HasRMWSemantics) /= 0

HasRMWSemantics(id) ==
    IF TARGET = "XARCH"
    THEN BitAnd(lookupFlags(id), HW_Flag_NoRMWSemantics) = 0
    ELSE BitAnd(lookupFlags(id), HW_Flag_HasRMWSemantics) /= 0

HasSpecialImport(id)      == BitAnd(lookupFlags(id), HW_Flag_SpecialImport) /= 0

\* The flag predicates by name, in the order of the header.
FlagPredicates ==
    << "IsCommutative", "HasFullRangeImm", "RequiresCodegen", "HasFixedSimdSize",
       "GeneratesMultipleIns", "SupportsContainment", "CopiesUpperBits",
       "BaseTypeFromFirstArg", "IsFloatingPointUsed", "MaybeImm", "MaybeMemoryLoad",
       "MaybeMemoryStore", "NoJmpTableImm", "BaseTypeFromSecondArg",
       "HasSpecialCodegen", "HasRMWSemantics", "HasSpecialImport" >>

FlagPredicate(p, id) ==
    CASE p = "IsCommutative"         -> IsCommutative(id)
      [] p = "HasFullRangeImm"       -> HasFullRangeImm(id)
      [] p = "RequiresCodegen"       -> RequiresCodegen(id)
      [] p = "HasFixedSimdSize"      -> HasFixedSimdSize(id)
      [] p = "GeneratesMultipleIns"  -> GeneratesMultipleIns(id)
      [] p = "SupportsContainment"   -> SupportsContainment(id)
      [] p = "CopiesUpperBits"       -> CopiesUpperBits(id)
      [] p = "BaseTypeFromFirstArg"  -> BaseTypeFromFirstArg(id)
      [] p = "IsFloatingPointUsed"   -> IsFloatingPointUsed(id)
      [] p = "MaybeImm"              -> MaybeImm(id)
      [] p = "MaybeMemoryLoad"       -> MaybeMemoryLoad(id)
      [] p = "MaybeMemoryStore"      -> MaybeMemoryStore(id)
      [] p = "NoJmpTableImm"         -> NoJmpTableImm(id)
      [] p = "BaseTypeFromSecondArg" -> BaseTypeFromSecondArg(id)
      [] p = "HasSpecialCodegen"     -> HasSpecialCodegen(id)
      [] p = "HasRMWSemantics"       -> HasRMWSemantics(id)
      [] p = "HasSpecialImport"      -> HasSpecialImport(id)

-----------------------------------------------------------------------------
(* Immediate operands *)

\* The narrower bound of an intrinsic whose immediate is not legal on the whole
\* byte range: the 32 comparison predicates of a floating-point compare.
NarrowImmUpperBound(id) == IF lookupName(id) = "Compare" THEN 31 ELSE 255

lookupImmUpperBound(id) ==
    IF HasFullRangeImm(id) THEN 255 ELSE NarrowImmUpperBound(id)

isInImmRange(id, ival) == ival >= 0 /\ ival <= lookupImmUpperBound(id)

-----------------------------------------------------------------------------
(* Compilation threads querying the registry *)

Threads == 1 .. NumThreads

MemberLookups ==
    { "lookupId", "lookupName", "lookupIsa", "lookupIval", "lookupSimdSize",
      "lookupNumArgs", "lookupCategory", "lookupFlags" }

\* Immediates tried: both ends of the byte range and their neighbours outside.
ImmValues == { -1, 0, 255, 256 }

NoRequest == [op |-> "none", id |-> NI_Illegal, arg |-> 0]

\* The value of one call, computed from the registry as it is now.
Eval(op, id, arg) ==
    IF op = "lookupIns" THEN lookupIns(id, arg)
    ELSE IF ~IsValidId(id) THEN Fatal
    ELSE CASE op = "lookupId"            -> RetInt(lookupId(id))
           [] op = "lookupName"          -> RetStr(lookupName(id))
           [] op = "lookupIsa"           -> RetStr(lookupIsa(id))
           [] op = "lookupIval"          -> RetInt(lookupIval(id))
           [] op = "lookupSimdSize"      -> RetInt(lookupSimdSize(id))
           [] op = "lookupNumArgs"       -> RetInt(lookupNumArgs(id))
           [] op = "lookupCategory"      -> RetInt(lookupCategory(id))
           [] op = "lookupFlags"         -> RetInt(lookupFlags(id))
           [] op = "lookupImmUpperBound" ->
                IF lookupCategory(id) = HW_Category_IMM
                THEN RetInt(lookupImmUpperBound(id)) ELSE Fatal
           [] op = "isInImmRange"        ->
                IF lookupCategory(id) = HW_Category_IMM
                THEN RetBool(isInImmRange(id, arg)) ELSE Fatal
           [] OTHER                      -> RetBool(FlagPredicate(op, id))

\* The table with the flag word of one row replaced.
WithFlags(table, id, flags) ==
    [table EXCEPT ![id - NI_HW_INTRINSIC_START - 1].flags = flags]

\* A call that marks the record it looked up, in the shared table
CompleteMarking(t, op, id, arg) ==
    LET r == Eval(op, id, arg) IN
    /\ pc[t] = "idle"
    /\ pc'  = [pc  EXCEPT ![t] = IF r.kind = "fatal" THEN "fatal" ELSE "ret"]
    /\ req' = [req EXCEPT ![t] = [op |-> op, id |-> id, arg |-> arg]]
    /\ ret' = [ret EXCEPT ![t] = r]
    /\ hwIntrinsicInfoArray' =
          IF IsValidId(id)
          THEN WithFlags(hwIntrinsicInfoArray, id,
                         BitXor(lookupFlags(id), HW_Flag_SpecialImport))
          ELSE hwIntrinsicInfoArray
    /\ UNCHANGED <<TARGET, DEBUG, comparison, swapped, nswaps>>

\* The call returns to its caller, or halts the compilation of the method.
Complete(t, op, id, arg) ==
    LET r == Eval(op, id, arg) IN
    /\ pc[t] = "idle"
    /\ pc'  = [pc  EXCEPT ![t] = IF r.kind = "fatal" THEN "fatal" ELSE "ret"]
    /\ req' = [req EXCEPT ![t] = [op |-> op, id |-> id, arg |-> arg]]
    /\ ret' = [ret EXCEPT ![t] = r]
    /\ UNCHANGED <<TARGET, DEBUG, hwIntrinsicInfoArray, comparison, swapped, nswaps>>

CallMember(t) ==
    \E op \in MemberLookups, id \in NamedIntrinsic \cup {NI_Illegal} :
        Complete(t, op, id, 0)

CallLookupIns(t) ==
    \E id \in NamedIntrinsic \cup {NI_Illegal}, type \in var_types :
        Complete(t, "lookupIns", id, type)

CallFlagPredicate(t) ==
    \E k \in DOMAIN FlagPredicates, id \in NamedIntrinsic :
        Complete(t, FlagPredicates[k], id, 0)

CallImmUpperBound(t) ==
    \E id \in NamedIntrinsic : Complete(t, "lookupImmUpperBound", id, 0)

CallIsInImmRange(t) ==
    \E id \in NamedIntrinsic, ival \in ImmValues : Complete(t, "isInImmRange", id, ival)

\* The caller consumes the value and goes on compiling.
Resume(t) ==
    /\ pc[t] = "ret"
    /\ pc'  = [pc  EXCEPT ![t] = "idle"]
    /\ req' = [req EXCEPT ![t] = NoRequest]
    /\ ret' = [ret EXCEPT ![t] = NoValue]
    /\ UNCHANGED <<TARGET, DEBUG, hwIntrinsicInfoArray, comparison, swapped, nswaps>>

Init ==
    /\ TARGET \in {"XARCH", "ARM64"}
    /\ DEBUG \in BOOLEAN
    /\ hwIntrinsicInfoArray \in Tables
    /\ pc  = [t \in Threads |-> "idle"]
    /\ req = [t \in Threads |-> NoRequest]
    /\ ret = [t \in Threads |-> NoValue]
    /\ comparison = 0
    /\ swapped = 0
    /\ nswaps = 0

Next ==
    \E t \in Threads :
        \/ CallMember(t)
        \/ CallLookupIns(t)
        \/ CallFlagPredicate(t)
        \/ CallImmUpperBound(t)
        \/ CallIsInImmRange(t)
        \/ Resume(t)

Spec == Init /\ [][Next]_vars

-----------------------------------------------------------------------------
(* One compilation thread querying every table a build may hold *)

MainThread == CHOOSE t \in Threads : \A u \in Threads : t <= u

NextQuery ==
    \/ CallMember(MainThread)
    \/ CallLookupIns(MainThread)
    \/ CallFlagPredicate(MainThread)
    \/ CallImmUpperBound(MainThread)
    \/ CallIsInImmRange(MainThread)
    \/ Resume(MainThread)

SpecQuery == Init /\ [][NextQuery]_vars

-----------------------------------------------------------------------------
(* The flag predicates over the flag sets a table row may carry *)

\* How many of the build's flags are set in a flag word.
FlagCount(flags) ==
    Cardinality({k \in DOMAIN HWIntrinsicFlag(TARGET) :
                    BitAnd(flags, HWIntrinsicFlag(TARGET)[k]) /= 0})

\* A row of the list is edited: one flag of its flag word is set or cleared.
\* Bounded: one row at a time differs from the flag-less table, by at most
\* MaxFlagBits flags.
EditFlag(id, flag) ==
    LET flags == BitXor(lookupFlags(id), flag) IN
    /\ \A t \in Threads : pc[t] = "idle"
    /\ \A other \in NamedIntrinsic \ {id} : lookupFlags(other) = HW_Flag_NoFlag
    /\ FlagCount(flags) <= MaxFlagBits
    /\ hwIntrinsicInfoArray' = WithFlags(hwIntrinsicInfoArray, id, flags)
    /\ UNCHANGED <<TARGET, DEBUG, pc, req, ret, comparison, swapped, nswaps>>

\* The table whose rows carry no flag yet.
FlaglessTable ==
    MakeTable([i \in 0 .. (NumIntrinsics - 1) |->
                 [HardwareIntrinsicList[1] EXCEPT !.flags = HW_Flag_NoFlag]])

InitFlags ==
    /\ TARGET \in {"XARCH", "ARM64"}
    /\ DEBUG = FALSE
    /\ hwIntrinsicInfoArray = FlaglessTable
    /\ pc  = [t \in Threads |-> "idle"]
    /\ req = [t \in Threads |-> NoRequest]
    /\ ret = [t \in Threads |-> NoValue]
    /\ comparison = 0
    /\ swapped = 0
    /\ nswaps = 0

NextFlags ==
    \/ \E id \in NamedIntrinsic, k \in DOMAIN HWIntrinsicFlag(TARGET) :
          EditFlag(id, HWIntrinsicFlag(TARGET)[k])
    \/ CallFlagPredicate(MainThread)
    \/ Resume(MainThread)

SpecFlags == InitFlags /\ [][NextFlags]_vars

-----------------------------------------------------------------------------
(* The floating-point comparison predicates (TARGET_XARCH) *)

_CMP_EQ_OQ    == 0      \* 0x00 Equal (ordered, nonsignaling)
_CMP_LT_OS    == 1      \* 0x01 Less-than (ordered, signaling)
_CMP_LE_OS    == 2      \* 0x02 Less-than-or-equal (ordered, signaling)
_CMP_UNORD_Q  == 3      \* 0x03 Unordered (nonsignaling)
_CMP_NEQ_UQ   == 4      \* 0x04 Not-equal (unordered, nonsignaling)
_CMP_NLT_US   == 5      \* 0x05 Not-less-than (unordered, signaling)
_CMP_NLE_US   == 6      \* 0x06 Not-less-than-or-equal (unordered, signaling)
_CMP_ORD_Q    == 7      \* 0x07 Ordered (nonsignaling)
_CMP_EQ_UQ    == 8      \* 0x08 Equal (unordered, non-signaling)
_CMP_NGE_US   == 9      \* 0x09 Not-greater-than-or-equal (unordered, signaling)
_CMP_NGT_US   == 10     \* 0x0A Not-greater-than (unordered, signaling)
_CMP_FALSE_OQ == 11     \* 0x0B False (ordered, nonsignaling)
_CMP_NEQ_OQ   == 12     \* 0x0C Not-equal (ordered, non-signaling)
_CMP_GE_OS    == 13     \* 0x0D Greater-than-or-equal (ordered, signaling)
_CMP_GT_OS_Slip == _CMP_GE_OS    \* greater-than given the code of the line above
_CMP_GT_OS    == 14     \* 0x0E Greater-than (ordered, signaling)
_CMP_TRUE_UQ  == 15     \* 0x0F True (unordered, non-signaling)
_CMP_EQ_OS    == 16     \* 0x10 Equal (ordered, signaling)
_CMP_LT_OQ    == 17     \* 0x11 Less-than (ordered, nonsignaling)
_CMP_LE_OQ    == 18     \* 0x12 Less-than-or-equal (ordered, nonsignaling)
_CMP_UNORD_S  == 19     \* 0x13 Unordered (signaling)
_CMP_NEQ_US   == 20     \* 0x14 Not-equal (unordered, signaling)
_CMP_NLT_UQ   == 21     \* 0x15 Not-less-than (unordered, nonsignaling)
_CMP_NLE_UQ   == 22     \* 0x16 Not-less-than-or-equal (unordered, nonsignaling)
_CMP_ORD_S    == 23     \* 0x17 Ordered (signaling)
_CMP_EQ_US    == 24     \* 0x18 Equal (unordered, signaling)
_CMP_NGE_UQ   == 25     \* 0x19 Not-greater-than-or-equal (unordered, nonsignaling)
_CMP_NGT_UQ   == 26     \* 0x1A Not-greater-than (unordered, nonsignaling)
_CMP_FALSE_OS == 27     \* 0x1B False (ordered, signaling)
_CMP_NEQ_OS   == 28     \* 0x1C Not-equal (ordered, signaling)
_CMP_GE_OQ    == 29     \* 0x1D Greater-than-or-equal (ordered, nonsignaling)
_CMP_GT_OQ    == 30     \* 0x1E Greater-than (ordered, nonsignaling)
_CMP_TRUE_US_Slip == _CMP_GT_OQ  \* the last code given the code of the line above
_CMP_TRUE_US  == 31     \* 0x1F True (unordered, signaling)

\* The table, in the order of the header.
ComparisonPredicates ==
    << _CMP_EQ_OQ, _CMP_LT_OS, _CMP_LE_OS, _CMP_UNORD_Q, _CMP_NEQ_UQ, _CMP_NLT_US,
       _CMP_NLE_US, _CMP_ORD_Q, _CMP_EQ_UQ, _CMP_NGE_US, _CMP_NGT_US, _CMP_FALSE_OQ,
       _CMP_NEQ_OQ, _CMP_GE_OS, _CMP_GT_OS, _CMP_TRUE_UQ, _CMP_EQ_OS, _CMP_LT_OQ,
       _CMP_LE_OQ, _CMP_UNORD_S, _CMP_NEQ_US, _CMP_NLT_UQ, _CMP_NLE_UQ, _CMP_ORD_S,
       _CMP_EQ_US, _CMP_NGE_UQ, _CMP_NGT_UQ, _CMP_FALSE_OS, _CMP_NEQ_OS, _CMP_GE_OQ,
       _CMP_GT_OQ, _CMP_TRUE_US >>

\* The predicates whose relation does not depend on the order of the operands:
\* equal, not-equal, ordered, unordered, true and false.
SymmetricPredicates ==
    { _CMP_EQ_OQ, _CMP_UNORD_Q, _CMP_NEQ_UQ, _CMP_ORD_Q, _CMP_EQ_UQ, _CMP_FALSE_OQ,
      _CMP_NEQ_OQ, _CMP_TRUE_UQ, _CMP_EQ_OS, _CMP_UNORD_S, _CMP_NEQ_US, _CMP_ORD_S,
      _CMP_EQ_US, _CMP_FALSE_OS, _CMP_NEQ_OS, _CMP_TRUE_US }

\* The operand of a compare is a 5-bit immediate.
ComparisonDomain == 0 .. 31

\* The result when the switch falls through to its default: a fatal error.
Unreached == -1

\* The predicate that keeps the meaning of the comparison when its operands are
\* swapped: less-than and greater-than trade places, as do their negations.
lookupFloatingComparisonForSwappedArgs(cmp) ==
    CASE cmp \in SymmetricPredicates -> cmp
      [] cmp = _CMP_LT_OS  -> _CMP_GT_OS
      [] cmp = _CMP_GT_OS  -> _CMP_LT_OS
      [] cmp = _CMP_LE_OS  -> _CMP_GE_OS
      [] cmp = _CMP_GE_OS  -> _CMP_LE_OS
      [] cmp = _CMP_NLT_US -> _CMP_NGT_US
      [] cmp = _CMP_NGT_US -> _CMP_NLT_US
      [] cmp = _CMP_NLE_US -> _CMP_NGE_US
      [] cmp = _CMP_NGE_US -> _CMP_NLE_US
      [] cmp = _CMP_LT_OQ  -> _CMP_GT_OQ
      [] cmp = _CMP_GT_OQ  -> _CMP_LT_OQ
      [] cmp = _CMP_LE_OQ  -> _CMP_GE_OQ
      [] cmp = _CMP_GE_OQ  -> _CMP_LE_OQ
      [] cmp = _CMP_NLT_UQ -> _CMP_NGT_UQ
      [] cmp = _CMP_NGT_UQ -> _CMP_NLT_UQ
      [] cmp = _CMP_NLE_UQ -> _CMP_NGE_UQ
      [] cmp = _CMP_NGE_UQ -> _CMP_NLE_UQ
      [] OTHER -> Unreached

\* The code generator swaps the operands of a compare once more.
SwapArgs ==
    /\ TARGET = "XARCH"
    /\ nswaps < MaxSwaps
    /\ swapped \in ComparisonDomain
    /\ swapped' = lookupFloatingComparisonForSwappedArgs(swapped)
    /\ nswaps' = nswaps + 1
    /\ UNCHANGED <<TARGET, DEBUG, hwIntrinsicInfoArray, pc, req, ret, comparison>>

InitCmp ==
    /\ TARGET = "XARCH"
    /\ DEBUG \in BOOLEAN
    /\ hwIntrinsicInfoArray = FlaglessTable
    /\ pc  = [t \in Threads |-> "idle"]
    /\ req = [t \in Threads |-> NoRequest]
    /\ ret = [t \in Threads |-> NoValue]
    /\ comparison \in ComparisonDomain
    /\ swapped = comparison
    /\ nswaps = 0

NextCmp == SwapArgs

SpecCmp == InitCmp /\ [][NextCmp]_vars

-----------------------------------------------------------------------------
(* Properties *)

\* Whether the bit of value v is set in the word flags, by division.
Bit(flags, v) == (flags \div v) % 2 = 1

\* The record of identifier id, read from the table by position.
Row(id) == hwIntrinsicInfoArray[id - NI_HW_INTRINSIC_START - 1]

\* A thread holds the outcome of a call of op.
Called(t, op) == pc[t] \in {"ret", "fatal"} /\ req[t].op = op

\* C1: for every identifier and every element type outside TYP_BYTE..TYP_DOUBLE,
\* lookupIns is fatal in every build: it never hands back a value.
C1_OutOfRangeTypeIsFatal ==
    \A t \in Threads :
        (Called(t, "lookupIns") /\ (req[t].arg < TYP_BYTE \/ req[t].arg > TYP_DOUBLE))
            => (pc[t] = "fatal" /\ ret[t].kind = "fatal")

\* C2: on XARCH HasRMWSemantics(id) is true exactly when bit 0x4000 is clear, on
\* ARM64 exactly when it is set, whatever the other flag bits are.
C2_RMWPolarity ==
    /\ \A id \in NamedIntrinsic :
          /\ TARGET = "XARCH" => (HasRMWSemantics(id) <=> ~Bit(Row(id).flags, 16384))
          /\ TARGET = "ARM64" => (HasRMWSemantics(id) <=> Bit(Row(id).flags, 16384))
    /\ \A t \in Threads :
          (Called(t, "HasRMWSemantics") /\ pc[t] = "ret") =>
              /\ ret[t].kind = "bool"
              /\ ret[t].b = (IF TARGET = "XARCH"
                             THEN ~Bit(Row(req[t].id).flags, 16384)
                             ELSE Bit(Row(req[t].id).flags, 16384))

\* C2 witness: on XARCH a thread asked about an identifier whose RMW bit is
\* clear while another flag is set, and was told TRUE.
C2_Witness ==
    \E t \in Threads :
        /\ Called(t, "HasRMWSemantics") /\ pc[t] = "ret"
        /\ TARGET = "XARCH"
        /\ ~Bit(Row(req[t].id).flags, 16384)
        /\ Row(req[t].id).flags /= 0
        /\ ret[t].b = TRUE

\* The predicates with no order-dependent counterpart, by code.
SelfSwapped == {0, 3, 4, 7, 8, 11, 12, 15, 16, 19, 20, 23, 24, 27, 28, 31}

\* C3: the swap function maps 0x00..0x1F into itself, applying it twice gives
\* back the predicate, and a predicate with no order-dependent counterpart maps
\* to itself.
C3_SwapInvolutive ==
    /\ \A p \in 0 .. 31 :
          /\ lookupFloatingComparisonForSwappedArgs(p) \in 0 .. 31
          /\ lookupFloatingComparisonForSwappedArgs(
                lookupFloatingComparisonForSwappedArgs(p)) = p
          /\ p \in SelfSwapped => lookupFloatingComparisonForSwappedArgs(p) = p
    /\ swapped \in 0 .. 31
    /\ nswaps % 2 = 0 => swapped = comparison
    /\ comparison \in SelfSwapped => swapped = comparison

\* C3 witness: less-than (ordered, signaling) swapped twice is itself again.
C3_Witness == comparison = 1 /\ nswaps = 2 /\ swapped = 1

\* C4: for every valid identifier the record lookup returns carries that
\* identifier, and the table holds exactly one record per identifier.
C4_LookupIdRoundTrip ==
    /\ \A id \in NamedIntrinsic :
          /\ lookupId(id) = id
          /\ Row(id).id = id
          /\ Cardinality({i \in DOMAIN hwIntrinsicInfoArray :
                              hwIntrinsicInfoArray[i].id = id}) = 1
    /\ \A t \in Threads :
          (Called(t, "lookupId") /\ req[t].id \in NamedIntrinsic) =>
              (pc[t] = "ret" /\ ret[t] = RetInt(req[t].id))

\* C4 witness: lookupId of the last identifier of the table returned it.
C4_Witness ==
    \E t \in Threads :
        /\ Called(t, "lookupId") /\ pc[t] = "ret"
        /\ req[t].id = NI_HW_INTRINSIC_END - 1
        /\ ret[t].i = NI_HW_INTRINSIC_END - 1

C6_FullRangeImm ==
    /\ \A id \in NamedIntrinsic :
          /\ Bit(Row(id).flags, 2) =>
                /\ HasFullRangeImm(id)
                /\ \A v \in 0 .. 255 : isInImmRange(id, v)
                /\ ~isInImmRange(id, -1)
                /\ ~isInImmRange(id, 256)
          /\ Row(id).category = HW_Category_IMM =>
                /\ lookupImmUpperBound(id) \in 0 .. 255
                /\ Bit(Row(id).flags, 2) => lookupImmUpperBound(id) = 255
    /\ \A t \in Threads :
          /\ (/\ Called(t, "isInImmRange")
              /\ Row(req[t].id).category = HW_Category_IMM
              /\ Bit(Row(req[t].id).flags, 2))
                => (pc[t] = "ret" /\ ret[t] = RetBool(req[t].arg \in 0 .. 255))
          /\ (/\ Called(t, "lookupImmUpperBound")
              /\ Row(req[t].id).category = HW_Category_IMM)
                => /\ pc[t] = "ret"
                   /\ ret[t].i \in 0 .. 255
                   /\ Bit(Row(req[t].id).flags, 2) => ret[t].i = 255

\* C6 witness: 256 was refused for a full-range identifier.
C6_Witness ==
    \E t \in Threads :
        /\ Called(t, "isInImmRange") /\ pc[t] = "ret"
        /\ Bit(Row(req[t].id).flags, 2)
        /\ req[t].arg = 256
        /\ ret[t].b = FALSE

\* Two threads that hold the outcome of the same call hold the same outcome,
\* and every outcome held is what the call yields on the table as it is now.
SameCallSameResult ==
    /\ \A t1, t2 \in Threads :
          (pc[t1] /= "idle" /\ pc[t2] /= "idle" /\ req[t1] = req[t2]) => ret[t1] = ret[t2]
    /\ \A t \in Threads :
          pc[t] /= "idle" => ret[t] = Eval(req[t].op, req[t].id, req[t].arg)

\* C7: no step of any thread changes a record of the registry, and calls with
\* the same identifier (and element type) return the same result whichever
\* thread makes them and whatever ran in between.
C7_RegistryImmutable ==
    [][hwIntrinsicInfoArray' = hwIntrinsicInfoArray /\ SameCallSameResult']_vars

\* C7 witness: two threads hold the instruction of the same identifier and
\* element type, and it is the same instruction.
C7_Witness ==
    \E t1, t2 \in Threads :
        /\ t1 /= t2
        /\ Called(t1, "lookupIns") /\ pc[t1] = "ret"
        /\ Called(t2, "lookupIns") /\ pc[t2] = "ret"
        /\ req[t1] = req[t2]
        /\ req[t1].arg = TYP_DOUBLE
        /\ ret[t1] = ret[t2]
        /\ ret[t1].i /= INS_invalid

\* The predicate that reads each flag, in the order of HWIntrinsicFlag.
PredicateOfFlag ==
    << "IsCommutative", "HasFullRangeImm", "RequiresCodegen", "HasFixedSimdSize",
       "GeneratesMultipleIns", "SupportsContainment", "CopiesUpperBits",
       "BaseTypeFromFirstArg", "IsFloatingPointUsed", "MaybeImm", "NoJmpTableImm",
       "BaseTypeFromSecondArg", "HasSpecialCodegen", "HasRMWSemantics",
       "HasSpecialImport", "MaybeMemoryLoad", "MaybeMemoryStore" >>

RECURSIVE IsSingleBit(_)
IsSingleBit(v) == IF v <= 1 THEN v = 1 ELSE v % 2 = 0 /\ IsSingleBit(v \div 2)

\* The flags are 17 distinct single bits, read by 17 distinct predicates.
FlagsAreSingleBits ==
    LET F == HWIntrinsicFlag(TARGET) IN
    /\ Len(F) = 17 /\ Len(FlagPredicates) = 17 /\ Len(PredicateOfFlag) = 17
    /\ \A k \in DOMAIN F : IsSingleBit(F[k])
    /\ \A j, k \in DOMAIN F : j /= k =>
          (F[j] /= F[k] /\ PredicateOfFlag[j] /= PredicateOfFlag[k])
    /\ {PredicateOfFlag[k] : k \in DOMAIN F} = {FlagPredicates[k] : k \in DOMAIN FlagPredicates}

\* The predicates whose answer for id differs between this state and the next.
ChangedPredicates(id) ==
    {k \in DOMAIN FlagPredicates :
        FlagPredicate(FlagPredicates[k], id)' /= FlagPredicate(FlagPredicates[k], id)}

\* C8: every flag other than HW_Flag_NoFlag is a distinct single bit; each of
\* the 17 predicates reads exactly one of them and no two read the same one, so
\* a step that toggles one flag of a record changes the answer of exactly one
\* predicate, the one of that flag, and of no predicate of another record.
C8_OnePredicatePerFlag ==
    [][hwIntrinsicInfoArray' /= hwIntrinsicInfoArray =>
          /\ FlagsAreSingleBits
          /\ \A id \in NamedIntrinsic :
                IF Row(id).flags' = Row(id).flags
                THEN ChangedPredicates(id) = {}
                ELSE \A k \in DOMAIN HWIntrinsicFlag(TARGET) :
                        (Bit(Row(id).flags', HWIntrinsicFlag(TARGET)[k])
                            /= Bit(Row(id).flags, HWIntrinsicFlag(TARGET)[k]))
                          => ChangedPredicates(id) =
                                {c \in DOMAIN FlagPredicates :
                                    FlagPredicates[c] = PredicateOfFlag[k]}]_vars

\* C8 witness: after two flags of a record were toggled, SupportsContainment
\* answered false and the record holds HW_Flag_NoContainment and one more flag.
C8_Witness ==
    \E t \in Threads :
        /\ Called(t, "SupportsContainment") /\ pc[t] = "ret"
        /\ ret[t].b = FALSE
        /\ Bit(Row(req[t].id).flags, 64)
        /\ Row(req[t].id).flags /= 64

\* C9: the table defines exactly 32 codes, pairwise distinct, covering exactly
\* 0x00..0x1F; every predicate handed to or by the swap function is one of them.
C9_PredicateTableDense ==
    LET codes == {ComparisonPredicates[k] : k \in DOMAIN ComparisonPredicates} IN
    /\ Len(ComparisonPredicates) = 32
    /\ Cardinality(codes) = 32
    /\ codes = 0 .. 31
    /\ comparison \in codes
    /\ swapped \in codes

\* C9 witness: the last code of the table, true (unordered, signaling), was
\* handed to the swap function and came back.
C9_Witness == comparison = 31 /\ nswaps = 1 /\ swapped = 31

\* C10: for an element type in TYP_BYTE..TYP_DOUBLE lookupIns returns slot
\* type - TYP_BYTE of the record's instruction array; the slot is in 0..9,
\* inside the array, and two element types never read the same slot.
C10_InsSlotInArray ==
    /\ \A id \in NamedIntrinsic :
          /\ DOMAIN Row(id).ins = 0 .. 9
          /\ \A type \in TYP_BYTE .. TYP_DOUBLE :
                /\ (type - TYP_BYTE) \in 0 .. 9
                /\ lookupIns(id, type) = RetInt(Row(id).ins[type - TYP_BYTE])
          /\ \A ty1, ty2 \in TYP_BYTE .. TYP_DOUBLE :
                ty1 /= ty2 => (ty1 - TYP_BYTE) /= (ty2 - TYP_BYTE)
    /\ \A t \in Threads :
          (/\ Called(t, "lookupIns")
           /\ req[t].id \in NamedIntrinsic
           /\ req[t].arg \in TYP_BYTE .. TYP_DOUBLE)
              => /\ pc[t] = "ret"
                 /\ ret[t].kind = "int"
                 /\ \E k \in 0 .. 9 :
                       k = req[t].arg - TYP_BYTE /\ ret[t].i = Row(req[t].id).ins[k]

\* C10 witness: the double-precision slot, the last of the array, was read and
\* held an instruction.
C10_Witness ==
    \E t \in Threads :
        /\ Called(t, "lookupIns") /\ pc[t] = "ret"
        /\ req[t].arg = TYP_DOUBLE
        /\ ret[t].i = Row(req[t].id).ins[9]
        /\ ret[t].i /= INS_invalid

=============================================================================
